---- MODULE Spec2Model ----
(***************************************************************************)
(* Model of the excel-export consumer: the Kafka dispatch loop             *)
(* (kafka_consumer.rs), the per-message unit of work                       *)
(* ExportService::process_export_request (export_service.rs) and the       *)
(* PostgresDbStore operations it drives (db_store.rs).                     *)
(*                                                                         *)
(* One action per await point of the code.  Every outcome of an external   *)
(* call (database, file system, HTTP, Kafka) is a nondeterministic choice  *)
(* between success and error.  The consumer reads one partition; each      *)
(* message received carries any payload, so the same request id may arrive *)
(* at several offsets (a duplicate or a redelivery).                       *)
(***************************************************************************)
EXTENDS Integers, Sequences, FiniteSets, TLC

\* ---------------------------------------------------------------- bounds
\* Number of messages the consumer receives from the topic partition.
QueueLen == 2

\* ------------------------------------------------------------- constants
\* Option::None, SQL NULL and Err(_) of a parse: the empty sequence.  Some(x) is
\* a non-empty sequence.
NULL == <<>>

\* Correlation ids that parse as a Uuid.  "a" has a row in ExportRequests,
\* "b" has none.
RequestIds == {"a", "b"}
StoredIds == {"a"}
\* Payload of a Kafka message: a Uuid in text form, or something that is not.
Payloads == RequestIds \cup {"bad"}
\* request_payload column: a JSON document that deserializes into
\* ReportParams, or one that does not.
RequestPayloads == {"valid_json", "invalid_json"}

Offsets == 1..QueueLen

\* models.rs: ExportStatus::as_str
PENDING == "PENDING"
PROCESSING == "PROCESSING"
COMPLETED == "COMPLETED"
FAILED == "FAILED"

\* AppConfig.excel_export_path and AppConfig.notification_service_url
ExcelExportPath == "export_dir"
NotificationBaseUrl == "notify_url"

VARIABLES
    rows,         \* table ExportRequests: id -> row
    lock,         \* row lock (SELECT ... FOR UPDATE): id -> holding task, 0 if free
    tasks,        \* spawned units of work, one per received offset
    pos,          \* next offset consumer.recv() returns
    committed,    \* the group's committed offset (next offset after a restart)
    dpc,          \* dispatch loop: "recv" or "sleep"
    gauge,        \* excel_export_requests_in_progress, keyed by request id
    files         \* paths that exist in the export directory

vars == <<rows, lock, tasks, pos, committed, dpc, gauge, files>>

\* ------------------------------------------------------- pure functions

\* ParseUuid with a defect: every payload is taken for a Uuid.
ParseUuidLenient(payload) ==
    <<payload>>

\* kafka_consumer.rs: Uuid::parse_str(payload); <<id>> is Ok(id), NULL is Err.
ParseUuid(payload) ==
    IF payload \in RequestIds THEN <<payload>> ELSE NULL

\* export_service.rs: serde_json::from_value::<ReportParams>(request_payload)
ParseReportParams(request_payload) ==
    request_payload = "valid_json"

\* ExportFileName with a defect: the name does not carry the request id.
ExportFileNameFixed(request_id) ==
    <<"export", ".xlsx">>

\* file_exporter.rs: filename = format!("{}.xlsx", request_id)
ExportFileName(request_id) ==
    <<request_id, ".xlsx">>

\* file_exporter.rs: full_path = format!("{}/{}", export_path, filename)
ExportFullPath(request_id, export_path) ==
    <<export_path, "/">> \o ExportFileName(request_id)

\* Path::new(&p).file_name(): the components after the last "/".
RECURSIVE FileName(_)
FileName(path) ==
    IF path = <<>> THEN <<>>
    ELSE IF \E i \in 1..Len(path) : path[i] = "/"
         THEN FileName(Tail(path))
         ELSE path

\* export_service.rs: public_file_url = file_path.map(|p| format!("{}/exports/{}", base, file_name(p)))
PublicFileUrl(file_path) ==
    IF file_path = NULL THEN NULL
    ELSE <<NotificationBaseUrl, "/exports/">> \o FileName(file_path)

\* export_service.rs: error_message = Some(format!("Error: {:?}", e))
ErrorText(cause) ==
    <<"Error: ", cause>>

\* IsFinalState with a defect: the guard tests FAILED alone.
IsFinalStateFailedOnly(status) ==
    status = FAILED

\* IsFinalState with a defect: the guard turns away a PROCESSING row as well.
IsFinalStateOrProcessing(status) ==
    status # PENDING

\* IsFinalState with a defect: the guard tests COMPLETED alone.
IsFinalStateCompletedOnly(status) ==
    status = COMPLETED

\* db_store.rs: the duplicate-delivery guard of fetch_and_update_request_status
IsFinalState(status) ==
    status = COMPLETED \/ status = FAILED

\* InitialFinalStatus with a defect: the local starts as Completed.
InitialFinalStatusCompleted ==
    COMPLETED

\* export_service.rs: let mut final_status = ExportStatus::Failed;
InitialFinalStatus ==
    FAILED

\* The errors the three pipeline stages raise inside the async block.
StageErrors == {"ParseError", "QueryError", "ExportError"}
\* The errors fetch_and_update_request_status raises.
FetchErrors == {"FetchDbError", "NotFound", "AlreadyProcessed"}

\* ------------------------------------------------------------ the state

\* A row as the external producer inserts it.
NewRow(request_payload) ==
    [ request_payload   |-> request_payload,
      status            |-> PENDING,
      file_path         |-> NULL,
      completed_at      |-> NULL,
      error_message     |-> NULL,
      notification_sent |-> FALSE ]

\* A unit of work that has not been spawned.
NoTask ==
    [ pc                |-> "unspawned",
      request_id        |-> "none",
      processing_result |-> "none",
      final_status      |-> "none",
      file_path         |-> NULL,
      error_message     |-> NULL,
      send_ok           |-> FALSE,
      ret               |-> "none",
      entry             |-> "none",
      calls             |-> {},
      sent              |-> NULL ]

Init ==
    /\ rows \in [StoredIds -> {NewRow(p) : p \in RequestPayloads}]
    /\ lock = [id \in StoredIds |-> 0]
    /\ tasks = [o \in Offsets |-> NoTask]
    /\ pos = 1
    /\ committed = 1
    /\ dpc = "recv"
    /\ gauge = [id \in RequestIds |-> 0]
    /\ files = {}

\* ------------------------------------------------- the request store

\* UpdateRequestStatusRow with a defect: the UPDATE leaves error_message out.
UpdateRequestStatusRowKeepsError(row, new_status, file_path, error_message, now) ==
    [row EXCEPT !.status = new_status,
                !.file_path = file_path,
                !.completed_at = now]

\* UpdateRequestStatusRow with a defect: the UPDATE leaves file_path out.
UpdateRequestStatusRowNoPath(row, new_status, file_path, error_message, now) ==
    [row EXCEPT !.status = new_status,
                !.completed_at = now,
                !.error_message = error_message]

\* db_store.rs, update_request_status: the single UPDATE of the four columns.
UpdateRequestStatusRow(row, new_status, file_path, error_message, now) ==
    [row EXCEPT !.status = new_status,
                !.file_path = file_path,
                !.completed_at = now,
                !.error_message = error_message]

\* UpdateNotificationSentRow with a defect: the UPDATE sets the flag whatever `sent` is.
UpdateNotificationSentRowAlwaysTrue(row, sent) ==
    [row EXCEPT !.notification_sent = TRUE]

\* db_store.rs, update_notification_sent_status: UPDATE ... SET notification_sent = $1
UpdateNotificationSentRow(row, sent) ==
    [row EXCEPT !.notification_sent = sent]

\* db_store.rs, fetch_and_update_request_status: UPDATE ... SET status = $1
UpdateStatusRow(row, new_status) ==
    [row EXCEPT !.status = new_status]

\* db_store.rs, update_request_status: Some(Utc::now()).  Each invocation
\* finalizes at most once, so the time of its write is told apart from the
\* time of every other write by the offset of the invocation's message.
Now(o) ==
    <<o>>

\* An UPDATE ... WHERE id = $n changes the row with that id, if there is one.
UpdateWhereId(table, id, newrow) ==
    IF id \in DOMAIN table THEN [table EXCEPT ![id] = newrow] ELSE table

\* An UPDATE of a row waits while another transaction holds its lock.
RowFree(id) ==
    id \in StoredIds => lock[id] = 0

\* EndTransaction with a defect: the transaction is left open and keeps its lock.
EndTransactionKeepsLock(locks, id) ==
    locks

\* db_store.rs, fetch_and_update_request_status: tx.rollback(), tx.commit(), or
\* the drop of the transaction on an error: the row lock is released.
EndTransaction(locks, id) ==
    [locks EXCEPT ![id] = 0]

\* ------------------------------------------------ the unit of work

\* EndBlock with a defect: a failed stage is not left, the task stays where it
\* is and runs the stage again.
EndBlockRetry(t, result) ==
    IF result = "Ok"
    THEN [t EXCEPT !.pc = "finalize", !.processing_result = result]
    ELSE [t EXCEPT !.processing_result = result]

\* export_service.rs, `match processing_result`: the async block has ended with
\* `result`; the Err arm formats the error, and both arms call
\* update_request_status next.
EndBlock(t, result) ==
    [t EXCEPT !.pc = "finalize",
              !.processing_result = result,
              !.error_message = IF result = "Ok" THEN NULL ELSE ErrorText(result)]

\* export_service.rs, the arguments of update_request_status in the two arms.
FinalizeFilePath(t) ==
    IF t.processing_result = "Ok" THEN t.file_path ELSE NULL

FinalizeErrorMessage(t) ==
    IF t.processing_result = "Ok" THEN NULL ELSE t.error_message

\* Notification with a defect: the status sent is the one the local started with.
NotificationInitialStatus(t) ==
    [ request_id    |-> t.request_id,
      status        |-> InitialFinalStatus,
      file_url      |-> PublicFileUrl(t.file_path),
      error_message |-> t.error_message ]

\* export_service.rs, the ExportNotification send_notification builds and posts.
Notification(t) ==
    [ request_id    |-> t.request_id,
      status        |-> t.final_status,
      file_url      |-> PublicFileUrl(t.file_path),
      error_message |-> t.error_message ]

\* CanCommit with a defect: the commit is issued after an Ok(()) only.
CanCommitOnSuccess(t) ==
    t.pc = "commit" /\ t.ret = "Ok"

\* CanCommit with a defect: the commit does not wait for process_export_request.
CanCommitEarly(t) ==
    TRUE

\* kafka_consumer.rs: the spawned task commits once process_export_request
\* has returned.
CanCommit(t) ==
    t.pc = "commit"

\* The unit of work has returned from process_export_request.
Returned(t) ==
    t.ret # "none"

\* Return with a defect: the error is dropped and the caller gets Ok(()).
ReturnOk(t, ret) ==
    [NoTask EXCEPT !.pc = "commit", !.request_id = t.request_id, !.ret = "Ok"]

\* export_service.rs, `return`/`?`/Ok(()): process_export_request returns `ret`
\* to the spawned task of kafka_consumer.rs, and its locals are dropped.
Return(t, ret) ==
    [NoTask EXCEPT !.pc = "commit", !.request_id = t.request_id, !.ret = ret]

\* kafka_consumer.rs, recv() -> Ok(message), a payload that parses: tokio::spawn.
RecvSpawn(payload) ==
    /\ dpc = "recv"
    /\ pos <= QueueLen
    /\ ParseUuid(payload) # NULL
    /\ tasks' = [tasks EXCEPT ![pos] =
                    [NoTask EXCEPT !.pc = "spawned",
                                   !.request_id = ParseUuid(payload)[1]]]
    /\ pos' = pos + 1
    /\ UNCHANGED <<rows, lock, committed, dpc, gauge, files>>

\* kafka_consumer.rs, recv() -> Ok(message), no payload or not a Uuid: continue.
RecvSkip(payload) ==
    /\ dpc = "recv"
    /\ pos <= QueueLen
    /\ ParseUuid(payload) = NULL
    /\ pos' = pos + 1
    /\ UNCHANGED <<rows, lock, tasks, committed, dpc, gauge, files>>

\* RecvError with a defect: the error leaves the loop.
RecvErrorBreaks ==
    /\ dpc = "recv"
    /\ dpc' = "stopped"
    /\ UNCHANGED <<rows, lock, tasks, pos, committed, gauge, files>>

\* kafka_consumer.rs, recv() -> Err(e): log and sleep 5 seconds.
RecvError ==
    /\ dpc = "recv"
    /\ dpc' = "sleep"
    /\ UNCHANGED <<rows, lock, tasks, pos, committed, gauge, files>>

\* kafka_consumer.rs: the sleep ends, back to the top of the loop.
Wake ==
    /\ dpc = "sleep"
    /\ dpc' = "recv"
    /\ UNCHANGED <<rows, lock, tasks, pos, committed, gauge, files>>

\* export_service.rs, entry of process_export_request up to its first await:
\* the gauge is set to 1.0 and the locals are initialised.
Enter(o) ==
    LET t == tasks[o] IN
    /\ t.pc = "spawned"
    /\ tasks' = [tasks EXCEPT ![o] =
                    [t EXCEPT !.pc = "fetch",
                              !.final_status = InitialFinalStatus,
                              !.entry = IF t.request_id \in StoredIds
                                        THEN rows[t.request_id].status
                                        ELSE "none"]]
    /\ gauge' = [gauge EXCEPT ![t.request_id] = 1]
    /\ UNCHANGED <<rows, lock, pos, committed, dpc, files>>

\* db_store.rs, fetch_and_update_request_status: pool.begin() and
\* SELECT ... FOR UPDATE.
FetchSelect(o) ==
    LET t == tasks[o] IN
    /\ t.pc = "fetch"
    /\ \/ /\ tasks' = [tasks EXCEPT ![o] = EndBlock(t, "FetchDbError")]
          /\ lock' = lock
       \/ /\ t.request_id \notin StoredIds
          /\ tasks' = [tasks EXCEPT ![o] = EndBlock(t, "NotFound")]
          /\ lock' = lock
       \/ /\ t.request_id \in StoredIds
          /\ lock[t.request_id] = 0
          /\ lock' = [lock EXCEPT ![t.request_id] = o]
          /\ tasks' = [tasks EXCEPT ![o] = [t EXCEPT !.pc = "fetch_locked"]]
    /\ UNCHANGED <<rows, pos, committed, dpc, gauge, files>>

\* db_store.rs, fetch_and_update_request_status after the SELECT: the final-state
\* check with its rollback, or UPDATE status and commit; then, back in
\* export_service.rs, the parse of request_payload up to the next await.
FetchFinish(o) ==
    LET t == tasks[o]
        id == t.request_id IN
    /\ t.pc = "fetch_locked"
    /\ lock' = EndTransaction(lock, id)
    /\ \/ /\ IsFinalState(rows[id].status)
          /\ rows' = rows
          /\ tasks' = [tasks EXCEPT ![o] = EndBlock(t, "AlreadyProcessed")]
       \/ /\ ~IsFinalState(rows[id].status)
          /\ rows' = rows
          /\ tasks' = [tasks EXCEPT ![o] = EndBlock(t, "FetchDbError")]
       \/ /\ ~IsFinalState(rows[id].status)
          /\ rows' = [rows EXCEPT ![id] = UpdateStatusRow(rows[id], PROCESSING)]
          /\ tasks' = [tasks EXCEPT ![o] =
                          IF ParseReportParams(rows[id].request_payload)
                          THEN [t EXCEPT !.pc = "query"]
                          ELSE EndBlock(t, "ParseError")]
    /\ UNCHANGED <<pos, committed, dpc, gauge, files>>

\* export_service.rs: db_store.query_product_data(&params).await
Query(o) ==
    LET t == [tasks[o] EXCEPT !.calls = @ \cup {"query"}] IN
    /\ tasks[o].pc = "query"
    /\ \/ tasks' = [tasks EXCEPT ![o] = [t EXCEPT !.pc = "export"]]
       \/ tasks' = [tasks EXCEPT ![o] = EndBlock(t, "QueryError")]
    /\ UNCHANGED <<rows, lock, pos, committed, dpc, gauge, files>>

\* export_service.rs: file_exporter.export_to_excel(...).await, then
\* file_path = Some(path) and final_status = Completed.  A failed export may
\* have left a partial file behind.
Export(o) ==
    LET t == [tasks[o] EXCEPT !.calls = @ \cup {"export"}]
        path == ExportFullPath(t.request_id, ExcelExportPath) IN
    /\ tasks[o].pc = "export"
    /\ \/ /\ files' = files \cup {path}
          /\ tasks' = [tasks EXCEPT ![o] =
                          EndBlock([t EXCEPT !.file_path = path,
                                             !.final_status = COMPLETED], "Ok")]
       \/ /\ files' \in {files, files \cup {path}}
          /\ tasks' = [tasks EXCEPT ![o] = EndBlock(t, "ExportError")]
    /\ UNCHANGED <<rows, lock, pos, committed, dpc, gauge>>

\* export_service.rs: db_store.update_request_status(...).await? in either arm
\* of the match; an error returns from process_export_request at once.
Finalize(o) ==
    LET t == [tasks[o] EXCEPT !.calls = @ \cup {"finalize"}]
        id == t.request_id IN
    /\ tasks[o].pc = "finalize"
    /\ \/ /\ RowFree(id)
          /\ rows' = UpdateWhereId(rows, id,
                        UpdateRequestStatusRow(rows[id], t.final_status,
                            FinalizeFilePath(t), FinalizeErrorMessage(t), Now(o)))
          /\ tasks' = [tasks EXCEPT ![o] = [t EXCEPT !.pc = "notify"]]
       \/ /\ rows' = rows
          /\ tasks' = [tasks EXCEPT ![o] = Return(t, "FinalizeError")]
    /\ UNCHANGED <<lock, pos, committed, dpc, gauge, files>>

\* export_service.rs: notifier.send_notification(...).await; notifier.rs posts
\* the ExportNotification and returns Ok on a 2xx response.
Notify(o) ==
    LET t == [tasks[o] EXCEPT !.calls = @ \cup {"send"},
                              !.sent = <<Notification(tasks[o])>>] IN
    /\ tasks[o].pc = "notify"
    /\ \/ tasks' = [tasks EXCEPT ![o] = [t EXCEPT !.pc = "mark", !.send_ok = TRUE]]
       \/ tasks' = [tasks EXCEPT ![o] = [t EXCEPT !.pc = "mark", !.send_ok = FALSE]]
    /\ UNCHANGED <<rows, lock, pos, committed, dpc, gauge, files>>

\* export_service.rs: update_notification_sent_status(id, false).await.ok() after
\* a failed send, update_notification_sent_status(id, true).await? after a
\* successful one; then the gauge is set to -1.0 and Ok(()) is returned.
Mark(o) ==
    LET t == [tasks[o] EXCEPT !.calls = @ \cup {"mark"}]
        id == t.request_id IN
    /\ tasks[o].pc = "mark"
    /\ \/ /\ RowFree(id)
          /\ rows' = UpdateWhereId(rows, id,
                        UpdateNotificationSentRow(rows[id], t.send_ok))
          /\ gauge' = [gauge EXCEPT ![id] = -1]
          /\ tasks' = [tasks EXCEPT ![o] = Return(t, "Ok")]
       \/ /\ ~t.send_ok
          /\ rows' = rows
          /\ gauge' = [gauge EXCEPT ![id] = -1]
          /\ tasks' = [tasks EXCEPT ![o] = Return(t, "Ok")]
       \/ /\ t.send_ok
          /\ rows' = rows
          /\ gauge' = gauge
          /\ tasks' = [tasks EXCEPT ![o] = Return(t, "MarkNotifiedError")]
    /\ UNCHANGED <<lock, pos, committed, dpc, files>>

\* kafka_consumer.rs: consumer.commit_message(&owned_message, Async).await in
\* the spawned task: the group's offset becomes the message's offset + 1; a
\* failed commit is logged.  The task ends and its locals are dropped.
Commit(o) ==
    LET t == tasks[o] IN
    /\ t.pc \notin {"unspawned", "done"}
    /\ CanCommit(t)
    /\ tasks' = [tasks EXCEPT ![o] =
                    [NoTask EXCEPT !.pc = "done", !.request_id = t.request_id]]
    /\ \/ committed' = o + 1
       \/ committed' = committed
    /\ UNCHANGED <<rows, lock, pos, dpc, gauge, files>>

\* The dispatch loop receiving messages and the units of work it spawns.
Next ==
    \/ \E payload \in Payloads : RecvSpawn(payload)
    \/ \E payload \in Payloads : RecvSkip(payload)
    \/ \E o \in Offsets : Enter(o)
    \/ \E o \in Offsets : FetchSelect(o)
    \/ \E o \in Offsets : FetchFinish(o)
    \/ \E o \in Offsets : Query(o)
    \/ \E o \in Offsets : Export(o)
    \/ \E o \in Offsets : Finalize(o)
    \/ \E o \in Offsets : Notify(o)
    \/ \E o \in Offsets : Mark(o)
    \/ \E o \in Offsets : Commit(o)

\* The same with the transport errors of recv().
NextTransport ==
    \/ Next
    \/ RecvError
    \/ Wake

\* RecvError and Wake change dpc alone and dpc only guards the two receive
\* actions, so a behaviour of SpecTransport with its RecvError and Wake steps
\* left out is a behaviour of Spec: a property that does not mention dpc holds
\* of both or of neither.
Spec == Init /\ [][Next]_vars

SpecTransport == Init /\ [][NextTransport]_vars

\* tokio::time::sleep(5 s) completes: the sleeping dispatch loop is woken.
SpecTransportFair == SpecTransport /\ WF_vars(Wake)

\* ------------------------------------------------------------- claims

Terminal == {COMPLETED, FAILED}

\* Task o is inside process_export_request: it has entered and not returned.
Running(o) ==
    tasks[o].pc \in {"fetch", "fetch_locked", "query", "export", "finalize",
                     "notify", "mark"}

\* Task o takes a step.
Steps(o) ==
    tasks'[o] # tasks[o]

\* Task o returns from process_export_request in this step.
Returns(o) ==
    Running(o) /\ tasks'[o].pc = "commit"

\* Task o returns from process_export_request out of update_notification_sent_status.
ReturnsFromMark(o) ==
    tasks[o].pc = "mark" /\ tasks'[o].pc = "commit"

\* No invocation other than o has started for o's request id.
SingleInvocation(o) ==
    \A p \in Offsets \ {o} :
        tasks[p].request_id = tasks[o].request_id => tasks[p].pc = "spawned"

\* Task o has passed fetch_and_update_request_status with Ok and has not returned.
PastFetch(o) ==
    /\ tasks[o].pc \in {"query", "export", "finalize", "notify", "mark"}
    /\ tasks[o].processing_result \notin FetchErrors

Rank(status) ==
    CASE status = PENDING -> 0
      [] status = PROCESSING -> 1
      [] OTHER -> 2

\* C1: a task that found its row COMPLETED or FAILED when it was invoked leaves
\* the row as it is in each of its steps, and when its fetch reads the row the
\* fetch reports the already-processed rejection.  (Stated for the invocations
\* whose fetch does read the row: one whose fetch ends in a database error
\* reports that error.)
C1_TerminalRowNotMutated ==
    [][\A o \in Offsets :
          (/\ tasks[o].entry \in Terminal
           /\ tasks[o].processing_result # "FetchDbError"
           /\ Steps(o)) =>
              /\ rows' = rows
              /\ tasks[o].pc = "fetch_locked" =>
                     tasks'[o].processing_result = "AlreadyProcessed"]_vars

\* C2: the stored status never moves backwards along
\* PENDING -> PROCESSING -> {COMPLETED, FAILED}, and a COMPLETED or FAILED status
\* is never changed to a different value.
C2_StatusForwardOnly ==
    [][\A id \in StoredIds :
          /\ Rank(rows'[id].status) >= Rank(rows[id].status)
          /\ rows[id].status \in Terminal => rows'[id].status = rows[id].status]_vars

\* C3: at no time are two units of work past the fetch step for the same
\* request id.
C3_OneWorkerPastFetch ==
    \A o \in Offsets : \A p \in Offsets \ {o} :
        tasks[o].request_id = tasks[p].request_id => ~(PastFetch(o) /\ PastFetch(p))

\* C4: a task that found its row COMPLETED or FAILED when it was invoked, and
\* whose fetch reported the already-processed rejection, sends no notification
\* and does not call update_notification_sent_status.
C4_NoNotificationForTerminal ==
    \A o \in Offsets :
        (/\ tasks[o].entry \in Terminal
         /\ tasks[o].processing_result = "AlreadyProcessed") =>
            /\ tasks[o].pc # "mark"
            /\ tasks[o].calls \cap {"send", "mark"} = {}

\* C5: a task that found its row COMPLETED or FAILED when it was invoked never
\* queries the data source and never calls the artifact generator.
C5_NoQueryNoExportForTerminal ==
    \A o \in Offsets :
        tasks[o].entry \in Terminal =>
            /\ tasks[o].pc \notin {"query", "export"}
            /\ tasks[o].calls \cap {"query", "export"} = {}

\* C5 witness: an invocation on a terminal row has been rejected by the fetch
\* and has run on to its last call before returning.
C5_Witness ==
    \E o \in Offsets :
        /\ tasks[o].entry \in Terminal
        /\ tasks[o].processing_result = "AlreadyProcessed"
        /\ tasks[o].pc = "mark"

\* The request id occurs in the path.
Contains(path, id) ==
    \E i \in 1..Len(path) : path[i] = id

\* The row of o's request after the only invocation for it, on a PENDING row,
\* has run the whole pipeline with success and returns.
C6_Completed(o) ==
    LET id == tasks[o].request_id IN
    /\ rows'[id].status = COMPLETED
    /\ rows'[id].file_path # NULL
    /\ Contains(rows'[id].file_path, id)
    /\ rows'[id].error_message = NULL

C6_Case(o) ==
    /\ ReturnsFromMark(o)
    /\ SingleInvocation(o)
    /\ tasks[o].request_id \in StoredIds
    /\ tasks[o].entry = PENDING
    /\ tasks[o].processing_result = "Ok"

\* C6 as stated: a single invocation on a PENDING request whose parse, query,
\* export and finalize succeed leaves the row COMPLETED with the artifact path
\* and no error message, and notification_sent true if the send succeeded.
C6_Original ==
    [][\A o \in Offsets :
          C6_Case(o) =>
              /\ C6_Completed(o)
              /\ tasks[o].send_ok => rows'[tasks[o].request_id].notification_sent]_vars

\* C6 amended: as above, with notification_sent true if the send succeeded and
\* the write of the flag succeeded (the invocation returns Ok); if that write
\* fails the flag keeps its value.
C6_Amended ==
    [][\A o \in Offsets :
          C6_Case(o) =>
              LET id == tasks[o].request_id IN
              /\ C6_Completed(o)
              /\ (tasks[o].send_ok /\ tasks'[o].ret = "Ok") =>
                     rows'[id].notification_sent
              /\ (tasks[o].send_ok /\ tasks'[o].ret # "Ok") =>
                     rows'[id].notification_sent = rows[id].notification_sent]_vars

\* C6 witness: the only invocation for the request has returned Ok and left the
\* row COMPLETED with its path and notification_sent set.
C6_Witness ==
    \E o \in Offsets :
        LET id == tasks[o].request_id IN
        /\ tasks[o].pc = "commit"
        /\ tasks[o].ret = "Ok"
        /\ SingleInvocation(o)
        /\ id \in StoredIds
        /\ rows[id].status = COMPLETED
        /\ rows[id].file_path # NULL
        /\ rows[id].notification_sent

\* C7: a single invocation on a PENDING request whose parse, query or export
\* fails, and whose finalize succeeds, leaves the row FAILED with no file path
\* and a non-empty error message, and does not return the stage's error.
C7_StageFailureFinalizedFailed ==
    [][\A o \in Offsets :
          (/\ ReturnsFromMark(o)
           /\ SingleInvocation(o)
           /\ tasks[o].request_id \in StoredIds
           /\ tasks[o].entry = PENDING
           /\ tasks[o].processing_result \in StageErrors) =>
              LET id == tasks[o].request_id IN
              /\ rows'[id].status = FAILED
              /\ rows'[id].file_path = NULL
              /\ rows'[id].error_message # NULL
              /\ Len(rows'[id].error_message) > 0
              /\ tasks'[o].ret \notin StageErrors
              /\ tasks'[o].ret \in {"Ok", "MarkNotifiedError"}]_vars

\* C7 witness: the only invocation for the request has returned and left the row
\* FAILED with the text of a stage's error.
C7_Witness ==
    \E o \in Offsets :
        LET id == tasks[o].request_id IN
        /\ tasks[o].pc = "commit"
        /\ tasks[o].ret = "Ok"
        /\ SingleInvocation(o)
        /\ id \in StoredIds
        /\ rows[id].status = FAILED
        /\ rows[id].error_message # NULL
        /\ rows[id].error_message[2] \in StageErrors

\* The columns update_request_status wrote are left alone by the step.
C8_Frame(id) ==
    /\ rows[id].status \in Terminal
    /\ rows'[id].status = rows[id].status
    /\ rows'[id].file_path = rows[id].file_path
    /\ rows'[id].error_message = rows[id].error_message
    /\ rows'[id].completed_at = rows[id].completed_at

\* C8 as stated: the step that records the notification outcome leaves status,
\* file_path and error_message as they are, and sets notification_sent to false
\* after a failed send and to true after a successful one.
C8_Original ==
    [][\A o \in Offsets :
          (ReturnsFromMark(o) /\ tasks[o].request_id \in StoredIds) =>
              LET id == tasks[o].request_id IN
              /\ C8_Frame(id)
              /\ rows'[id].notification_sent = tasks[o].send_ok]_vars

\* C8 amended: the step leaves status, file_path, error_message and
\* completed_at as they are; after a successful send notification_sent becomes
\* true if the write succeeds and keeps its value (and the invocation returns
\* the error) if it fails; after a failed send notification_sent becomes false
\* or, if the best-effort write fails, keeps its value.
C8_Amended ==
    [][\A o \in Offsets :
          (ReturnsFromMark(o) /\ tasks[o].request_id \in StoredIds) =>
              LET id == tasks[o].request_id IN
              /\ C8_Frame(id)
              /\ (tasks[o].send_ok /\ tasks'[o].ret = "Ok") =>
                     rows'[id].notification_sent
              /\ (tasks[o].send_ok /\ tasks'[o].ret # "Ok") =>
                     rows'[id].notification_sent = rows[id].notification_sent
              /\ ~tasks[o].send_ok =>
                     rows'[id].notification_sent \in
                         {FALSE, rows[id].notification_sent}]_vars

\* C8 witness: after a COMPLETED finalize the send failed, and the invocation has
\* returned with notification_sent false and the status still COMPLETED.
C8_Witness ==
    \E o \in Offsets :
        LET id == tasks[o].request_id IN
        /\ tasks[o].pc = "commit"
        /\ tasks[o].ret = "Ok"
        /\ SingleInvocation(o)
        /\ id \in StoredIds
        /\ rows[id].status = COMPLETED
        /\ ~rows[id].notification_sent

\* C9: the commit of a message is issued only by a task whose
\* process_export_request call has returned, and every task whose call has
\* returned, with Ok or with an error, is at the commit.
C9_CommitAfterReturn ==
    /\ [][\A o \in Offsets :
             (tasks[o].pc # "done" /\ tasks'[o].pc = "done") =>
                 (Returned(tasks[o]) /\ ~Running(o))]_vars
    /\ [](\A o \in Offsets :
             /\ Returned(tasks[o]) => (tasks[o].pc = "commit" /\ ENABLED Commit(o))
             /\ Running(o) => ~Returned(tasks[o]))

\* C9 witness: one message's commit has been issued, and another unit of work
\* has returned an error and is about to commit.
C9_Witness ==
    \E o \in Offsets : \E p \in Offsets :
        /\ tasks[o].pc = "done"
        /\ tasks[p].pc = "commit"
        /\ tasks[p].ret \in {"FinalizeError", "MarkNotifiedError"}

\* C10: the committed offset never covers a message whose unit of work has
\* been spawned and has not returned.
C10_CommittedCoversOnlyReturned ==
    \A o \in Offsets :
        (tasks[o].pc = "spawned" \/ Running(o)) => committed <= o

\* Offset o has been received and no unit of work was spawned for it.
Skipped(o) ==
    o < pos /\ tasks[o].pc = "unspawned"

\* C11: a unit of work is spawned only with a correlation id, so a message
\* whose payload is not one spawns none; the receive step that spawns nothing
\* changes no task and issues no commit, and leaves the dispatch loop at recv()
\* with the next offset; a skipped offset never gets a unit of work and the
\* commit of its position is never issued.
C11_BadPayloadSkipped ==
    /\ [][\A o \in Offsets :
             /\ (tasks[o].pc = "unspawned" /\ tasks'[o].pc # "unspawned") =>
                    /\ tasks'[o].request_id \in RequestIds
                    /\ pos = o
             /\ (pos = o /\ pos' # pos /\ tasks'[o].pc = "unspawned") =>
                    /\ tasks' = tasks
                    /\ committed' = committed
                    /\ pos' = o + 1
                    /\ dpc' = "recv"
             /\ Skipped(o) =>
                    /\ tasks'[o] = tasks[o]
                    /\ committed' # committed => committed' # o + 1]_vars
    /\ [](\A o \in Offsets : Skipped(o) => ~ENABLED Commit(o))

\* C11 witness: the first message was skipped, and the message after it has
\* been received, processed and committed.
C11_Witness ==
    /\ QueueLen >= 2
    /\ Skipped(1)
    /\ tasks[2].pc = "done"
    /\ committed = 3

\* C12: when update_request_status fails, process_export_request returns the
\* error from that first and only attempt, before any send_notification or
\* update_notification_sent_status call, and the table is as it was before the
\* attempt; the task's one remaining step is the commit of its message, which
\* leaves the table alone.
C12_FinalizeFailureStops ==
    [][\A o \in Offsets :
          /\ (tasks[o].pc = "finalize" /\ Steps(o) /\ tasks'[o].pc # "notify") =>
                 /\ tasks'[o].pc = "commit"
                 /\ tasks'[o].ret = "FinalizeError"
                 /\ tasks[o].calls \cap {"finalize", "send", "mark"} = {}
                 /\ rows' = rows
          /\ (tasks[o].ret = "FinalizeError" /\ Steps(o)) =>
                 /\ tasks[o].pc = "commit"
                 /\ tasks'[o].pc = "done"
                 /\ rows' = rows]_vars

\* C12 witness: the export wrote the file, update_request_status failed, and
\* the invocation has returned the error with the row still PROCESSING and not
\* notified.
C12_Witness ==
    \E o \in Offsets :
        LET id == tasks[o].request_id IN
        /\ tasks[o].pc = "commit"
        /\ tasks[o].ret = "FinalizeError"
        /\ SingleInvocation(o)
        /\ id \in StoredIds
        /\ rows[id].status = PROCESSING
        /\ rows[id].completed_at = NULL
        /\ ~rows[id].notification_sent
        /\ ExportFullPath(id, ExcelExportPath) \in files

\* C13: process_export_request returns Ok(()) from the step that calls
\* update_notification_sent_status, whether that write succeeds or fails and
\* whether it was called with true or with false.
C13_MarkFailureNotPropagated ==
    [][\A o \in Offsets :
          ReturnsFromMark(o) => tasks'[o].ret = "Ok"]_vars

\* C14: a row lock is held only by a task between the SELECT ... FOR UPDATE and
\* the end of the transaction of fetch_and_update_request_status, so a task at
\* the query, the export, the finalize or the notification holds none; and the
\* step that ends the transaction releases the lock whether it rolls back
\* (already processed, or an error) or commits.
C14_LockOnlyInsideFetch ==
    /\ [](\A id \in StoredIds :
             /\ lock[id] # 0 =>
                    /\ tasks[lock[id]].pc = "fetch_locked"
                    /\ tasks[lock[id]].request_id = id
             /\ \A o \in Offsets :
                    tasks[o].pc # "fetch_locked" => lock[id] # o)
    /\ [][\A o \in Offsets :
             (tasks[o].pc = "fetch_locked" /\ Steps(o)) =>
                 /\ lock[tasks[o].request_id] = o
                 /\ lock'[tasks[o].request_id] = 0
                 /\ tasks'[o].pc # "fetch_locked"]_vars

\* C14 witness: one task is generating the artifact while another task for the
\* same request holds the row lock inside its fetch.
C14_Witness ==
    \E o \in Offsets : \E p \in Offsets :
        /\ tasks[o].pc = "export"
        /\ tasks[p].pc = "fetch_locked"
        /\ tasks[p].request_id = tasks[o].request_id
        /\ lock[tasks[o].request_id] = p

\* C15: a fetch that reads the row in PROCESSING does not report the
\* already-processed rejection and leaves the row in PROCESSING; an invocation
\* that was started on a PROCESSING row and whose block ended with Ok has run
\* the query and the export, finalizes COMPLETED and sends a notification of
\* its own.
C15_ProcessingReenters ==
    /\ [][\A o \in Offsets :
             (/\ tasks[o].pc = "fetch_locked"
              /\ rows[tasks[o].request_id].status = PROCESSING
              /\ Steps(o)) =>
                 /\ tasks'[o].processing_result # "AlreadyProcessed"
                 /\ rows'[tasks[o].request_id].status = PROCESSING
                 /\ tasks'[o].pc \in {"query", "finalize"}]_vars
    /\ [](\A o \in Offsets :
             (/\ tasks[o].entry = PROCESSING
              /\ tasks[o].processing_result = "Ok") =>
                 /\ {"query", "export"} \subseteq tasks[o].calls
                 /\ tasks[o].final_status = COMPLETED
                 /\ tasks[o].file_path # NULL
                 /\ tasks[o].pc = "mark" =>
                        /\ {"finalize", "send"} \subseteq tasks[o].calls
                        /\ tasks[o].sent # NULL
                        /\ tasks[o].sent[1].request_id = tasks[o].request_id)

\* C15 witness: two invocations for the same request, the second started on
\* the PROCESSING row, have both exported, finalized and sent a notification.
C15_Witness ==
    \E o \in Offsets : \E p \in Offsets \ {o} :
        /\ tasks[p].request_id = tasks[o].request_id
        /\ tasks[o].entry = PENDING
        /\ tasks[p].entry = PROCESSING
        /\ \A q \in {o, p} :
              /\ tasks[q].pc = "mark"
              /\ tasks[q].processing_result = "Ok"
              /\ {"export", "finalize", "send"} \subseteq tasks[q].calls
              /\ tasks[q].sent # NULL
              /\ tasks[q].send_ok

\* C16: when the only invocation for a request id returns, with Ok or with an
\* error, the exit write of the in-progress gauge has been made: the gauge of
\* that id no longer shows the 1 written at entry, and no invocation for the
\* id is running.
C16_GaugeMatchedAtReturn ==
    [][\A o \in Offsets :
          (Returns(o) /\ SingleInvocation(o)) =>
              /\ gauge[tasks[o].request_id] = 1
              /\ gauge'[tasks[o].request_id] < 1]_vars

\* How far a unit of work has come.
PcRank(pc) ==
    CASE pc = "unspawned" -> 0
      [] pc = "spawned" -> 1
      [] pc = "fetch" -> 2
      [] pc = "fetch_locked" -> 3
      [] pc = "query" -> 4
      [] pc = "export" -> 5
      [] pc = "finalize" -> 6
      [] pc = "notify" -> 7
      [] pc = "mark" -> 8
      [] pc = "commit" -> 9
      [] OTHER -> 10

\* Some step of the spawned task o.
TaskStep(o) ==
    \/ Enter(o)
    \/ FetchSelect(o)
    \/ FetchFinish(o)
    \/ Query(o)
    \/ Export(o)
    \/ Finalize(o)
    \/ Notify(o)
    \/ Mark(o)
    \/ Commit(o)

\* C17: whatever the outcomes of its stages, a unit of work that has not ended
\* can take a step, each of its steps brings it nearer to its end (so it ends
\* after at most ten steps), and none of its steps touches the dispatch loop:
\* while messages remain, the loop at recv() can receive and dispatch the next
\* one whatever state the units of work are in.
C17_WorkEndsDispatcherGoesOn ==
    /\ [][\A o \in Offsets :
             Steps(o) =>
                 /\ PcRank(tasks'[o].pc) > PcRank(tasks[o].pc)
                 /\ tasks[o].pc # "unspawned" => (dpc' = dpc /\ pos' = pos)]_vars
    /\ [](\A o \in Offsets :
             tasks[o].pc \notin {"unspawned", "done"} => ENABLED TaskStep(o))
    /\ []((dpc = "recv" /\ pos <= QueueLen) =>
             \A payload \in Payloads :
                 ENABLED (RecvSpawn(payload) \/ RecvSkip(payload)))

\* C17 witness: the first unit of work has failed with the error of its
\* finalize, and the dispatch loop can dispatch the second message.
C17_Witness ==
    /\ tasks[1].ret = "FinalizeError"
    /\ pos = 2
    /\ ENABLED RecvSpawn("a")

\* C18: the dispatch loop is always at recv() or in the sleep that follows a
\* receive error; a receive error loses no message and touches no unit of
\* work; the sleep can always end, its end is the loop's only way on and leads
\* back to recv(), where the next message, if there is one, can be received
\* and dispatched; and a sleeping loop does come back to recv().
C18_RecvErrorNeverStopsLoop ==
    /\ [](dpc \in {"recv", "sleep"})
    /\ [][/\ (dpc = "recv" /\ dpc' # "recv") =>
                 (dpc' = "sleep" /\ pos' = pos /\ tasks' = tasks
                     /\ committed' = committed)
          /\ (dpc = "sleep" /\ dpc' # "sleep") =>
                 (dpc' = "recv" /\ pos' = pos /\ tasks' = tasks)
          /\ dpc = "sleep" => pos' = pos]_vars
    /\ [](dpc = "sleep" => ENABLED Wake)
    /\ []((dpc = "recv" /\ pos <= QueueLen) =>
             /\ ENABLED RecvError
             /\ \E payload \in Payloads : ENABLED RecvSpawn(payload))
    /\ (dpc = "sleep") ~> (dpc = "recv")

\* C18 witness: after the first message was dispatched a receive error has put
\* the loop to sleep, with the second message still to come.
C18_Witness ==
    /\ dpc = "sleep"
    /\ pos = 2
    /\ tasks[1].pc \notin {"unspawned", "spawned"}
    /\ pos <= QueueLen

\* The notification n carries the outcome: status, the artifact path and the
\* error message, for request id.
CarriesOutcome(n, id, status, file_path, error_message) ==
    /\ n.request_id = id
    /\ n.status = status
    /\ n.status \in Terminal
    /\ n.file_url # NULL <=> file_path # NULL
    /\ n.file_url # NULL <=> n.status = COMPLETED
    /\ n.file_url # NULL =>
           n.file_url = <<NotificationBaseUrl, "/exports/">> \o ExportFileName(id)
    /\ n.error_message = error_message
    /\ n.error_message # NULL <=> n.status = FAILED

\* C19: the notification an invocation sends carries the status, the artifact
\* path and the error message the same invocation passed to
\* update_request_status: the file_url is there exactly when a path was passed,
\* which is exactly when the status is COMPLETED, and is the base url,
\* "/exports/" and the file name of the request id; the error message is there
\* exactly when the status is FAILED.  When no other invocation for the id has
\* started, that outcome is the one the stored row holds at the send.
C19_NotificationCarriesOutcome ==
    [][\A o \in Offsets :
          (tasks[o].pc = "notify" /\ Steps(o)) =>
              LET t == tasks[o]
                  id == t.request_id
                  n == tasks'[o].sent[1] IN
              /\ tasks'[o].sent # NULL
              /\ "finalize" \in t.calls
              /\ CarriesOutcome(n, id, t.final_status, FinalizeFilePath(t),
                                FinalizeErrorMessage(t))
              /\ (SingleInvocation(o) /\ id \in StoredIds) =>
                     CarriesOutcome(n, id, rows[id].status, rows[id].file_path,
                                    rows[id].error_message)]_vars

\* C19 witness: one invocation has sent a COMPLETED notification with a file
\* url and no error message, another a FAILED notification with an error
\* message and no file url.
C19_Witness ==
    \E o \in Offsets : \E p \in Offsets :
        /\ tasks[o].pc = "mark"
        /\ tasks[o].sent # NULL
        /\ tasks[o].sent[1].status = COMPLETED
        /\ tasks[o].sent[1].file_url # NULL
        /\ tasks[o].sent[1].error_message = NULL
        /\ tasks[p].pc = "mark"
        /\ tasks[p].sent # NULL
        /\ tasks[p].sent[1].status = FAILED
        /\ tasks[p].sent[1].file_url = NULL
        /\ tasks[p].sent[1].error_message # NULL

\* `{export_directory}/{request_id}.xlsx`
ArtifactPath(id) ==
    <<ExcelExportPath, "/", id, ".xlsx">>

\* C20: every file in the export directory is the artifact path of a request
\* id, so there is at most one file per id however many invocations have
\* generated it; the path an invocation got from the export, and the file_path
\* a row holds, are the artifact path of that request id, and that file exists.
C20_OnePathPerRequest ==
    /\ \A f \in files : \E id \in RequestIds : f = ArtifactPath(id)
    /\ \A id \in RequestIds :
           Cardinality({f \in files : Contains(f, id)}) <= 1
    /\ \A o \in Offsets :
           tasks[o].file_path # NULL =>
               /\ tasks[o].file_path = ArtifactPath(tasks[o].request_id)
               /\ tasks[o].file_path \in files
    /\ \A id \in StoredIds :
           rows[id].file_path # NULL =>
               /\ rows[id].file_path = ArtifactPath(id)
               /\ rows[id].file_path \in files

\* C20 witness: two invocations for the same request have both generated the
\* artifact and finalized, there is one file, and the row holds its path.
C20_Witness ==
    \E o \in Offsets : \E p \in Offsets \ {o} :
        LET id == tasks[o].request_id IN
        /\ tasks[p].request_id = id
        /\ \A q \in {o, p} :
              /\ tasks[q].pc \in {"notify", "mark"}
              /\ "export" \in tasks[q].calls
              /\ tasks[q].file_path = ArtifactPath(id)
        /\ files = {ArtifactPath(id)}
        /\ rows[id].file_path = ArtifactPath(id)

\* C21: every stored row is consistent in itself: COMPLETED goes with a file
\* path and no error message, FAILED with an error message and no file path,
\* either of them with completed_at, and PENDING or PROCESSING with no file
\* path (nor error message, nor completed_at).
C21_RowConsistent ==
    \A id \in StoredIds :
        LET row == rows[id] IN
        /\ row.status \in {PENDING, PROCESSING, COMPLETED, FAILED}
        /\ row.status = COMPLETED =>
               (row.file_path # NULL /\ row.error_message = NULL)
        /\ row.status = FAILED =>
               (row.file_path = NULL /\ row.error_message # NULL)
        /\ row.status \in Terminal => row.completed_at # NULL
        /\ row.status \in {PENDING, PROCESSING} =>
               /\ row.file_path = NULL
               /\ row.error_message = NULL
               /\ row.completed_at = NULL

\* C21 witness: two invocations for the same request have finalized, one
\* FAILED and one COMPLETED, and the row holds the COMPLETED write, made last.
C21_Witness ==
    \E o \in Offsets : \E p \in Offsets \ {o} :
        LET id == tasks[o].request_id IN
        /\ tasks[p].request_id = id
        /\ id \in StoredIds
        /\ tasks[o].pc \in {"notify", "mark"}
        /\ tasks[p].pc \in {"notify", "mark"}
        /\ tasks[o].final_status = FAILED
        /\ tasks[o].processing_result \in StageErrors
        /\ tasks[p].final_status = COMPLETED
        /\ rows[id].status = COMPLETED
        /\ rows[id].completed_at = Now(p)

\* C22: an invocation whose fetch found no row for its request id creates no
\* row and changes no row in any of its steps, and sends no notification.
C22_NotFoundNoEffect ==
    [][\A o \in Offsets :
          (tasks[o].processing_result = "NotFound" /\ Steps(o)) =>
              /\ tasks[o].request_id \notin StoredIds
              /\ DOMAIN rows' = DOMAIN rows
              /\ rows' = rows
              /\ files' = files
              /\ "send" \notin tasks'[o].calls
              /\ tasks'[o].sent = NULL]_vars

\* C23: when process_export_request returns Ok(()) for a request id that has a
\* row, the row's status is COMPLETED or FAILED in the state it returns in,
\* whatever other invocations for the id have done meanwhile; so an invocation
\* that returns with the row PENDING or PROCESSING returns an error.
C23_OkReturnLeavesTerminal ==
    [][\A o \in Offsets :
          (Returns(o) /\ tasks[o].request_id \in StoredIds) =>
              LET id == tasks[o].request_id IN
              /\ tasks'[o].ret = "Ok" => rows'[id].status \in Terminal
              /\ rows'[id].status \notin Terminal =>
                     tasks'[o].ret \in {"FinalizeError", "MarkNotifiedError"}]_vars

\* C23 witness: one invocation has returned Ok while another invocation for
\* the same request, which passed the fetch, is still at its query or export;
\* the row is COMPLETED or FAILED.
C23_Witness ==
    \E o \in Offsets : \E p \in Offsets \ {o} :
        LET id == tasks[o].request_id IN
        /\ id \in StoredIds
        /\ tasks[p].request_id = id
        /\ tasks[o].pc = "commit"
        /\ tasks[o].ret = "Ok"
        /\ tasks[p].pc \in {"query", "export"}
        /\ rows[id].status \in Terminal

\* The tokio runtime polls every spawned task that can go on, and every call a
\* task awaits returns: a task that can take a step does take one.
SpecFair == Spec /\ \A o \in Offsets : WF_vars(TaskStep(o))

\* C24: every message received with a valid correlation id, that is every
\* message a unit of work was spawned for, eventually has the commit of its
\* position issued.
C24_EveryDispatchedMessageCommits ==
    \A o \in Offsets :
        (tasks[o].pc \notin {"unspawned", "done"}) ~> (tasks[o].pc = "done")

\* C24 witness: all the messages were received with a valid correlation id and
\* the commit of each has been issued, the last of them having taken effect.
C24_Witness ==
    /\ pos = QueueLen + 1
    /\ \A o \in Offsets : tasks[o].pc = "done" /\ tasks[o].request_id \in RequestIds
    /\ committed = QueueLen + 1

====
